---- MODULE Spec2Model ----
(***************************************************************************)
(* Model of the sampling / correction pipeline of dingo's gravitational-   *)
(* wave samplers (dingo/gw/inference/gw_samplers.py): the reference-time   *)
(* correction of ra, the synthetic-phase reconstruction, _post_process,    *)
(* the construction of the likelihood, and the construction and iteration  *)
(* of the GNPE sampler; and of the generation of waveforms                 *)
(* (dingo/gw/waveform_generator/waveform_generator.py): the handling of    *)
(* generation errors and the generation of a batch in a pool of workers.   *)
(*                                                                         *)
(* Angles are integers in units of 2*pi/TwoPi.  A Python None is the empty *)
(* set and a present value v is {v}.  A sample table is a dict of columns: *)
(* a function from column names to equally long sequences.                 *)
(***************************************************************************)
EXTENDS Integers, Sequences, FiniteSets, TLC

\* ---------------------------------------------------------------- bounds
MaxRows == 2
MaxTime == 2
MaxGrid == 2
MaxIter == 3
MaxDomain == 2
MaxWorkers == 2
MaxModes == 2
MaxCalls == 2
MaxFreq == 3
MaxEpoch == 3
MaxClock == 2

\* ------------------------------------------------------ program constants
\* 2 * np.pi, in angle units
TwoPi == 4
\* -np.inf of the log-probabilities (finite log-probabilities are > NegInf)
NegInf == -100
\* base_model_metadata["train_settings"]["data"]["ref_time"]
RefTime == 1

None == {}
Some(x) == {x}
Val(o) == CHOOSE x \in o : TRUE

Times == 0..MaxTime

VARIABLES
    \* GWSamplerMixin attributes
    t_ref, event_metadata, synthetic_phase_kwargs, inference_parameters,
    phase_prior, geocent_time_prior, prior, likelihood,
    \* the sample table handed to _post_process (mutated in place)
    samples,
    \* observation of the calls made so far
    pc, orig, pre, synth_in, call, trace, lik_arg, drawn, synth,
    \* GWSamplerGNPE
    data_settings, transform_pre, transform_post, gnpe_parameters,
    gnpe_pc, num_iterations, iteration, batch, proxies, init_draws,
    model_calls, proxy_src,
    \* observation of the last _build_likelihood call with arguments
    build_call,
    \* WaveformGenerator attributes: len(self.domain), self.transform
    domain_len, wf_transform,
    \* observation of the last call of a single waveform
    wf_call,
    \* generate_waveforms_parallel: its arguments, the tasks running in the
    \* pool and those completed (in the order of completion), the results so
    \* far, and what it returned
    parameter_samples, pool, par_pc, running, completed, polarizations_list,
    polarizations,
    \* sum_over_l: the caller's dictionary of mode arrays, and the calls made
    fd_modearray_dict, sum_calls,
    \* WaveformDataset attributes: the range of self.domain, self._Vh,
    \* self.is_truncated; observation of the last truncate_dataset_domain call
    dataset_domain, Vh, is_truncated, truncate_call,
    \* write_history: the history file, the epochs written so far, the last call
    history_file, epochs_written, history_call,
    \* RuntimeLimits: the attributes of the object, the last call
    limits, limits_call

sampler_vars == <<t_ref, event_metadata, synthetic_phase_kwargs,
                  inference_parameters, phase_prior, geocent_time_prior,
                  prior, likelihood>>
call_vars == <<samples, pc, orig, pre, synth_in, call, trace, lik_arg, drawn, synth>>
gnpe_vars == <<data_settings, transform_pre, transform_post, gnpe_parameters,
               gnpe_pc, num_iterations, iteration, batch, proxies, init_draws,
               model_calls, proxy_src>>
wfg_vars == <<domain_len, wf_transform, wf_call, parameter_samples, pool, par_pc,
              running, completed, polarizations_list, polarizations>>
util_vars == <<fd_modearray_dict, sum_calls, dataset_domain, Vh, is_truncated,
               truncate_call, history_file, epochs_written, history_call,
               limits, limits_call>>
aux_vars == <<build_call, wfg_vars, util_vars>>
vars == <<sampler_vars, call_vars, gnpe_vars, aux_vars>>

\* ------------------------------------------------------------ sample table
NRows(S) == Len(S["ra"])
Columns(S) == DOMAIN S
DropColumn(S, c) == [k \in DOMAIN S \ {c} |-> S[k]]
WithColumn(S, c, arr) == [k \in DOMAIN S \cup {c} |-> IF k = c THEN arr ELSE S[k]]
Rank(mask, i) == Cardinality({j \in 1..i : mask[j]})
Count(mask) == Cardinality({j \in DOMAIN mask : mask[j]})
\* array[mask]: the selected entries, in their original order
Select(arr, mask) ==
    [j \in 1..Count(mask) |->
        arr[CHOOSE i \in DOMAIN mask : mask[i] /\ Rank(mask, i) = j]]
ILocAll(S, mask) == S

\* theta.iloc[mask]
ILoc(S, mask) == [k \in DOMAIN S |-> Select(S[k], mask)]

\* ------------------------------------------------------------------ prior
\* values of the phase entry of the prior built from the model metadata
PhasePriors == {"Uniform_0_2pi", "Uniform_other", "NonUniform"}

\* values of the column "rest", standing for all parameters other than ra and
\* phase: inside the prior, violating a constraint, or outside the support
RestVals == {"in", "constraint0", "lnp_inf"}
RaVals == {-1, 1, TwoPi - 1}

\* prior.ln_prob(theta, axis=0): the sum over the columns of theta
LnProbRa(ra) == IF 0 <= ra /\ ra <= TwoPi THEN 0 ELSE NegInf
LnProbRest(r) == IF r = "lnp_inf" THEN NegInf ELSE 0
AddLog(a, b) == IF a = NegInf \/ b = NegInf THEN NegInf ELSE a + b
LnProb(theta) ==
    [i \in 1..NRows(theta) |-> AddLog(LnProbRa(theta["ra"][i]), LnProbRest(theta["rest"][i]))]
\* prior.evaluate_constraints(theta)
EvaluateConstraints(theta) ==
    [i \in 1..NRows(theta) |-> IF theta["rest"][i] = "constraint0" THEN 0 ELSE 1]

\* ------------------------------------------------ _build_prior (l. 58-81)
BasePrior(phase_entry) ==
    [k \in {"ra", "rest", "phase"} |->
        IF k = "phase" THEN phase_entry
        ELSE IF k = "ra" THEN "Uniform_0_2pi" ELSE "Joint"]
PriorPop(p, key) == [k \in DOMAIN p \ {key} |-> p[k]]
PriorSet(p, key, v) == [k \in DOMAIN p \cup {key} |-> IF k = key THEN v ELSE p[k]]

PhaseSplitOff(p, inf_params) == "phase" \in DOMAIN p /\ "phase" \notin inf_params
\* self.phase_prior after _build_prior
BuildPhasePrior(p, inf_params) ==
    IF PhaseSplitOff(p, inf_params) THEN Some(p["phase"]) ELSE None
\* self.prior after _build_prior
BuildPrior(p, inf_params) ==
    IF PhaseSplitOff(p, inf_params) THEN PriorPop(p, "phase") ELSE p

\* ------------------------------------------ _build_likelihood (l. 102-168)
EventDicts ==
    {[keys |-> {}, time_event |-> None]}
    \cup {[keys |-> {"time_event"}, time_event |-> v] :
            v \in {None} \cup {Some(t) : t \in Times}}
EventMetadatas == {None} \cup {Some(d) : d \in EventDicts}
\* dict.get(key), None when the key is missing
DictGet(d, key) == IF key \in d.keys THEN d.time_event ELSE None

LikelihoodTRefOfModel(md, tref) == Some(tref)

\* the reference time the likelihood is constructed with (l. 150-153)
LikelihoodTRef(md, tref) ==
    IF md # None /\ "time_event" \in Val(md).keys
    THEN Val(md).time_event ELSE Some(tref)
\* l. 155-168: the likelihood object, by the arguments it is constructed with
NewLikelihood(md, tref, time_marginalization_kwargs, phase_marginalization) ==
    Some([t_ref |-> LikelihoodTRef(md, tref),
          time_marginalization_kwargs |-> time_marginalization_kwargs,
          phase_marginalization |-> phase_marginalization])
\* self.likelihood after _build_likelihood() with its default arguments
BuildLikelihood(md, tref) == NewLikelihood(md, tref, None, FALSE)

\* ------------------------------------- _post_correct_for_tref (l. 170-206)
\* Greenwich apparent sidereal time of a GPS time, as an angle
SiderealTime(t) == t % TwoPi

NeedsCorrectionNoTimeCheck(md, tref) ==
    md # None /\ DictGet(Val(md), "time_event") # None

\* l. 191-193: a correction is applied only for an event time that is present
\* and differs from t_ref
NeedsCorrection(md, tref) ==
    /\ md # None
    /\ LET t_event == DictGet(Val(md), "time_event")
       IN  t_event # None /\ Val(t_event) # tref

\* l. 195-202: delta_longitude.rad
RaCorrection(t_event, tref) == SiderealTime(t_event) - SiderealTime(tref)

PostCorrectRaForwardOnly(ra, ra_correction, inverse) ==
    (ra + ra_correction) % TwoPi

\* l. 203-206
PostCorrectRa(ra, ra_correction, inverse) ==
    IF ~inverse THEN (ra + ra_correction) % TwoPi
    ELSE (ra - ra_correction) % TwoPi

PostCorrectForTrefAllColumns(S, inverse) ==
    IF NeedsCorrection(event_metadata, t_ref)
    THEN LET t_event == Val(DictGet(Val(event_metadata), "time_event"))
             ra_correction == RaCorrection(t_event, t_ref)
         IN  [c \in DOMAIN S |->
                IF c \in {"ra", "log_prob"}
                THEN [i \in DOMAIN S[c] |->
                        PostCorrectRa(S[c][i], ra_correction, inverse)]
                ELSE S[c]]
    ELSE S

\* l. 191-206
PostCorrectForTref(S, inverse) ==
    IF NeedsCorrection(event_metadata, t_ref)
    THEN LET t_event == Val(DictGet(Val(event_metadata), "time_event"))
             ra_correction == RaCorrection(t_event, t_ref)
         IN  [S EXCEPT !["ra"] =
                [i \in DOMAIN @ |-> PostCorrectRa(@[i], ra_correction, inverse)]]
    ELSE S

\* ------------------------------------ _sample_synthetic_phase (l. 208-314)
PhasePriorValidAnyUniform(pp) ==
    pp # None /\ Val(pp) \in {"Uniform_0_2pi", "Uniform_other"}

\* l. 247-251: a Uniform prior with bounds (0, 2 pi)
PhasePriorValid(pp) == pp # None /\ Val(pp) = "Uniform_0_2pi"

\* l. 261-264
WithinPrior(theta) ==
    LET log_prior == LnProb(theta)
        constraints == EvaluateConstraints(theta)
        masked == [i \in DOMAIN log_prior |->
                     IF constraints[i] = 0 THEN NegInf ELSE log_prior[i]]
    IN  [i \in DOMAIN masked |-> masked[i] # NegInf]

\* l. 282: np.linspace(0, 2 * np.pi, n_grid), for the grid sizes n_grid >= 2
\* that a density can be fitted on
Phases(n_grid) ==
    IF n_grid = 1 THEN <<0>>
    ELSE [i \in 1..n_grid |-> ((i - 1) * TwoPi) \div (n_grid - 1)]

\* the real part of the complex inner product the likelihood returns for a
\* row, and of its product with a phasor: Re(d * exp(-2i phi)) for d real
DInnerH(ra) == ra - 1
\* cos(2 phi) for phi a multiple of pi/2 (TwoPi / 4): the real part of l. 283
Cos2Phi(phi) == IF phi % (TwoPi \div 2) = 0 THEN 1 ELSE -1
\* l. 284: np.outer(d_inner_h_complex, phasor).real
PhaseLogPosterior(d_inner_h, phases) ==
    [r \in DOMAIN d_inner_h |->
        [j \in DOMAIN phases |-> d_inner_h[r] * Cos2Phi(phases[j])]]

\* l. 285: the builtin max over the rows of the (R x n_grid) array
\* phase_log_posterior.  It raises ValueError for no row (empty sequence) and
\* for two or more rows of two or more entries (the comparison of two rows is
\* an array whose truth value is ambiguous).
MaxRaises(R, n_grid) == R = 0 \/ (R >= 2 /\ n_grid >= 2)
\* l. 285: what the builtin max returns when it does not raise: the one row
BuiltinMax(phase_log_posterior) == phase_log_posterior[1]
\* l. 285: the exponents of phase_posterior, the 1-D array m subtracted from
\* every row (broadcast); phase_posterior is exp of these
PhasePosteriorExponents(phase_log_posterior, m) ==
    [r \in DOMAIN phase_log_posterior |->
        [j \in DOMAIN m |-> phase_log_posterior[r][j] - m[j]]]

\* dict.get(key, default) on the synthetic phase settings
KwargsGet(kwargs, key, default) ==
    IF key \in DOMAIN kwargs THEN kwargs[key] ELSE default
\* l. 295-299: the arguments handed to the fit of the phase density
FitArgs(phases, phase_posterior, kwargs) ==
    [phases |-> phases,
     phase_posterior |-> phase_posterior,
     num_processes |-> KwargsGet(kwargs, "num_processes", 1)]

\* what a call has computed on its way (l. 266-299)
NoSynth == [lik_calls |-> 0, likelihood_used |-> None, phases |-> None,
            phase_log_posterior |-> None, phase_posterior |-> None,
            fit |-> None]

\* the weight of the uniform background in the settings, in hundredths
UniformWeights == {5}

\* log-densities the fitted phase density assigns to a phase it has drawn
DeltaLogProbs == {-2, -1}
Range(f) == {f[i] : i \in DOMAIN f}

WriteBackByIndex(S, within_prior, new_phase, delta_log_prob) ==
    LET n == NRows(S)
        phase_array == [i \in 1..n |->
            IF within_prior[i] /\ i <= Len(new_phase) THEN new_phase[i] ELSE 0]
        delta_log_prob_array == [i \in 1..n |->
            IF within_prior[i] /\ i <= Len(delta_log_prob)
            THEN delta_log_prob[i] ELSE NegInf]
    IN  [WithColumn(S, "phase", phase_array) EXCEPT !["log_prob"] =
            [i \in 1..n |-> AddLog(@[i], delta_log_prob_array[i])]]

WriteBackNoPhaseColumn(S, within_prior, new_phase, delta_log_prob) ==
    [S EXCEPT !["log_prob"] =
        [i \in 1..NRows(S) |->
            AddLog(@[i], IF within_prior[i]
                         THEN delta_log_prob[Rank(within_prior, i)] ELSE NegInf)]]

\* l. 303-309
WriteBack(S, within_prior, new_phase, delta_log_prob) ==
    LET n == NRows(S)
        phase_array == [i \in 1..n |->
            IF within_prior[i] THEN new_phase[Rank(within_prior, i)] ELSE 0]
        delta_log_prob_array == [i \in 1..n |->
            IF within_prior[i] THEN delta_log_prob[Rank(within_prior, i)]
            ELSE NegInf]
    IN  [WithColumn(S, "phase", phase_array) EXCEPT !["log_prob"] =
            [i \in 1..n |-> AddLog(@[i], delta_log_prob_array[i])]]

\* l. 312
RestorePhasePrior(pr, pp) == PriorSet(pr, "phase", Val(pp))

ResetLikelihoodKept(lik) == lik

\* l. 314
ResetLikelihood(lik) == None

NoCall == [fn |-> "none", inverse |-> FALSE, result |-> "none", at |-> "none"]
PostProcessCall(inverse, result, at) ==
    [fn |-> "_post_process", inverse |-> inverse, result |-> result, at |-> at]

\* the effect of one _sample_synthetic_phase(S, inverse) call made by
\* _post_process after the steps tr
SampleSyntheticPhase(S, inverse, tr) ==
    /\ synth_in' = Some(S)
    /\ IF inverse
       THEN \* l. 244-245
            /\ samples' = S
            /\ call' = PostProcessCall(inverse, "ok", "none")
            /\ trace' = tr \o <<"synthetic_phase">>
            /\ lik_arg' = None
            /\ drawn' = None
            /\ synth' = NoSynth
            /\ UNCHANGED <<prior, likelihood>>
       ELSE IF ~PhasePriorValid(phase_prior)
       THEN \* l. 247-255
            /\ samples' = S
            /\ call' = PostProcessCall(inverse, "ValueError", "phase_prior")
            /\ trace' = tr \o <<"synthetic_phase", "check_phase_prior">>
            /\ lik_arg' = None
            /\ drawn' = None
            /\ synth' = NoSynth
            /\ UNCHANGED <<prior, likelihood>>
       ELSE LET theta == DropColumn(S, "log_prob")
                within_prior == WithinPrior(theta)
                theta0 == WithColumn(theta, "phase", [i \in 1..NRows(theta) |-> 0])
                arg == ILoc(theta0, within_prior)
                R == Count(within_prior)
                kwargs == Val(synthetic_phase_kwargs)
                n_grid == kwargs.n_grid
                built == BuildLikelihood(event_metadata, t_ref)
                d_inner_h == [r \in 1..NRows(arg) |-> DInnerH(arg.ra[r])]
                phases == Phases(n_grid)
                phase_log_posterior == PhaseLogPosterior(d_inner_h, phases)
                computed == [NoSynth EXCEPT
                                !.lik_calls = 1,
                                !.likelihood_used = built,
                                !.phases = Some(phases),
                                !.phase_log_posterior = Some(phase_log_posterior)]
                tr1 == tr \o <<"synthetic_phase", "check_phase_prior", "ln_prob",
                               "evaluate_constraints", "build_likelihood",
                               "d_inner_h_complex_multi", "max">>
            IN  /\ lik_arg' = Some(arg)
                /\ IF MaxRaises(R, n_grid)
                   THEN \* l. 285 raises: nothing is written back and the
                        \* likelihood built at l. 266 stays in place
                        /\ samples' = S
                        /\ call' = PostProcessCall(inverse, "ValueError", "max")
                        /\ trace' = tr1
                        /\ drawn' = None
                        /\ synth' = computed
                        /\ likelihood' = built
                        /\ UNCHANGED prior
                   ELSE LET phase_posterior ==
                                PhasePosteriorExponents(phase_log_posterior,
                                    BuiltinMax(phase_log_posterior))
                        IN
                        \E new_phase \in [1..R -> Range(phases)],
                           delta_log_prob \in [1..R -> DeltaLogProbs] :
                        /\ samples' = WriteBack(S, within_prior, new_phase, delta_log_prob)
                        /\ call' = PostProcessCall(inverse, "ok", "none")
                        /\ trace' = tr1 \o <<"sample_and_log_prob", "write",
                                             "restore_phase_prior", "reset_likelihood">>
                        /\ drawn' = Some([within_prior |-> within_prior,
                                          new_phase |-> new_phase,
                                          delta_log_prob |-> delta_log_prob])
                        /\ synth' = [computed EXCEPT
                                        !.phase_posterior = Some(phase_posterior),
                                        !.fit = Some(FitArgs(phases, phase_posterior,
                                                             kwargs))]
                        /\ prior' = RestorePhasePrior(prior, phase_prior)
                        /\ likelihood' = ResetLikelihood(built)

\* --------------------------------------------- _post_process (l. 371-389)
PostProcessBodyUncorrected(inverse) ==
    IF synthetic_phase_kwargs # None
    THEN SampleSyntheticPhase(samples, inverse, <<"post_correct_for_tref">>)
    ELSE /\ samples' = PostCorrectForTref(samples, inverse)
         /\ call' = PostProcessCall(inverse, "ok", "none")
         /\ trace' = <<"post_correct_for_tref">>
         /\ synth_in' = None
         /\ lik_arg' = None
         /\ drawn' = None
         /\ synth' = NoSynth
         /\ UNCHANGED <<prior, likelihood>>

PostProcessBody(inverse) ==
    LET corrected == PostCorrectForTref(samples, inverse)
    IN  IF synthetic_phase_kwargs # None
        THEN SampleSyntheticPhase(corrected, inverse, <<"post_correct_for_tref">>)
        ELSE /\ samples' = corrected
             /\ call' = PostProcessCall(inverse, "ok", "none")
             /\ trace' = <<"post_correct_for_tref">>
             /\ synth_in' = None
             /\ lik_arg' = None
             /\ drawn' = None
             /\ synth' = NoSynth
             /\ UNCHANGED <<prior, likelihood>>

\* a forward call on the samples drawn from the density model (sampling), or
\* an inverse call on samples that are to be evaluated (log_prob)
PostProcess(inverse) ==
    /\ \/ pc = "drawn"
       \/ pc = "forward" /\ inverse /\ call.result = "ok"
    /\ pre' = [samples |-> samples, prior |-> prior, likelihood |-> likelihood]
    /\ pc' = IF pc = "drawn" THEN (IF inverse THEN "inverse" ELSE "forward")
             ELSE "round_trip"
    /\ PostProcessBody(inverse)
    /\ UNCHANGED <<t_ref, event_metadata, synthetic_phase_kwargs,
                   inference_parameters, phase_prior, geocent_time_prior,
                   orig, gnpe_vars, aux_vars>>

\* ---------------------------------------------------- the density model
Batches(inf_params) ==
    UNION {
        {[c \in inf_params \cup {"log_prob"} |->
            IF c = "ra" THEN ras
            ELSE IF c = "rest" THEN rests
            ELSE [i \in 1..n |-> 0]] :
          ras \in [1..n -> RaVals], rests \in [1..n -> RestVals]}
        : n \in 1..MaxRows}

\* the sampler is handed a new batch of samples of its inference parameters
Draw ==
    /\ gnpe_pc = "off"
    /\ pc = "init"
    /\ \E S \in Batches(inference_parameters) :
        /\ samples' = S
        /\ orig' = S
        /\ pre' = [samples |-> S, prior |-> prior, likelihood |-> likelihood]
    /\ pc' = "drawn"
    /\ UNCHANGED <<synth_in, call, trace, lik_arg, drawn, synth>>
    /\ UNCHANGED <<sampler_vars, gnpe_vars, aux_vars>>

EmptyTable == [c \in {"ra", "rest", "log_prob"} |-> <<>>]

\* the call has ended and its table is with the caller; the sampler keeps
\* its prior and likelihood for the next call
Return ==
    /\ pc \in {"forward", "inverse", "round_trip"}
    /\ pc' = "init"
    /\ samples' = EmptyTable
    /\ orig' = EmptyTable
    /\ pre' = [samples |-> EmptyTable, prior |-> prior, likelihood |-> likelihood]
    /\ synth_in' = None
    /\ call' = NoCall
    /\ trace' = <<>>
    /\ lik_arg' = None
    /\ drawn' = None
    /\ synth' = NoSynth
    /\ UNCHANGED <<sampler_vars, gnpe_vars, aux_vars>>

GnpeOff ==
    /\ data_settings = [gnpe_time_shifts |-> "absent", gnpe_chirp |-> "absent"]
    /\ transform_pre = None
    /\ transform_post = None
    /\ gnpe_parameters = None
    /\ gnpe_pc = "off"
    /\ num_iterations = 0
    /\ iteration = 0
    /\ batch = 0
    /\ proxies = None
    /\ init_draws = 0
    /\ model_calls = 0
    /\ proxy_src = <<>>

NoCalls ==
    /\ samples = EmptyTable
    /\ orig = EmptyTable
    /\ pc = "init"
    /\ pre = [samples |-> EmptyTable, prior |-> prior, likelihood |-> likelihood]
    /\ synth_in = None
    /\ call = NoCall
    /\ trace = <<>>
    /\ lik_arg = None
    /\ drawn = None
    /\ synth = NoSynth

\* GWSamplerMixin.__init__ after Sampler.__init__ (l. 42-81)
InitSampler ==
    /\ t_ref = RefTime
    /\ event_metadata \in EventMetadatas
    /\ synthetic_phase_kwargs \in
          {None} \cup {Some([n_grid |-> n, uniform_weight |-> w]) :
                       n \in 2..MaxGrid, w \in UniformWeights}
    /\ \E phase_entry \in PhasePriors :
        /\ inference_parameters \in {{"ra", "rest"}, {"ra", "rest", "phase"}}
        /\ "phase" \in inference_parameters => phase_entry = "Uniform_0_2pi"
        /\ phase_prior = BuildPhasePrior(BasePrior(phase_entry), inference_parameters)
        /\ prior = BuildPrior(BasePrior(phase_entry), inference_parameters)
    /\ likelihood = None

\* no _build_likelihood call with arguments has been made
NoBuildCall ==
    [time_marginalization_kwargs |-> None, kwargs_after |-> None,
     phase_marginalization |-> FALSE, result |-> "none", at |-> "none",
     before |-> None, constructed |-> 0]

NoWfCall == [fn |-> "none", parameters |-> "none", catch_waveform_errors |-> FALSE,
             result |-> "none", error |-> [type |-> "none", args |-> <<>>],
             value |-> None]

\* no waveform generator is in use
WfgOff ==
    /\ domain_len = 1
    /\ wf_transform = None
    /\ wf_call = NoWfCall
    /\ parameter_samples = <<>>
    /\ pool = None
    /\ par_pc = "off"
    /\ running = {}
    /\ completed = <<>>
    /\ polarizations_list = <<>>
    /\ polarizations = None

\* sum_over_l has not been called
ModesOff == fd_modearray_dict = <<>> /\ sum_calls = <<>>

NoTruncateCall == [new_range |-> None, result |-> "none", before |-> None,
                   n_ok |-> 0]
\* no WaveformDataset has been loaded
DatasetOff ==
    /\ dataset_domain = None
    /\ Vh = None
    /\ is_truncated = FALSE
    /\ truncate_call = NoTruncateCall

NoHistoryCall == [epoch |-> None, result |-> "none", mode |-> "none",
                  before |-> None]
\* no training run writes a history
HistoryOff ==
    /\ history_file = None
    /\ epochs_written = <<>>
    /\ history_call = NoHistoryCall

NoLimitsCall ==
    [fn |-> "none", args |-> None, epoch |-> None, elapsed |-> 0, result |-> "none"]
\* no RuntimeLimits has been constructed
LimitsOff == limits = None /\ limits_call = NoLimitsCall

UtilOff == ModesOff /\ DatasetOff /\ HistoryOff /\ LimitsOff

AuxOff == build_call = NoBuildCall /\ WfgOff /\ UtilOff

Init ==
    /\ InitSampler
    /\ geocent_time_prior = None
    /\ NoCalls /\ GnpeOff /\ AuxOff

Next ==
    \/ Draw
    \/ PostProcess(FALSE)
    \/ PostProcess(TRUE)
    \/ Return

Spec == Init /\ [][Next]_vars

\* ------------------------- GWSamplerGNPE._initialize_transforms (l. 466-542)
\* a settings entry is missing, present but empty (None or {}), or a
\* configuration
SettingsEntries == {"absent", "empty", "config"}
\* data_settings.get(key)
SettingsGet(ds, key) == IF ds[key] = "absent" THEN "empty" ELSE ds[key]
\* the truth value of a settings entry
Truthy(v) == v = "config"

GnpeSettingsMissingEither(gnpe_time_settings, gnpe_chirp_settings) ==
    ~Truthy(gnpe_time_settings) \/ ~Truthy(gnpe_chirp_settings)

\* l. 475
GnpeSettingsMissing(gnpe_time_settings, gnpe_chirp_settings) ==
    ~Truthy(gnpe_time_settings) /\ ~Truthy(gnpe_chirp_settings)

\* l. 487-513
GnpeTransformPre(gnpe_time_settings, gnpe_chirp_settings) ==
    <<"RenameKey">>
    \o (IF Truthy(gnpe_time_settings)
        THEN <<"GNPECoalescenceTimes", "TimeShiftStrain">> ELSE <<>>)
    \o (IF Truthy(gnpe_chirp_settings) THEN <<"GNPEChirp">> ELSE <<>>)
    \o <<"SelectStandardizeRepackageParameters", "RenameKey">>

\* l. 515-518: the input parameters of the GNPEBase transforms, in order
InputParameterNames(transform) ==
    IF transform = "GNPECoalescenceTimes" THEN <<"detector_times">>
    ELSE IF transform = "GNPEChirp" THEN <<"chirp_mass">>
    ELSE <<>>
RECURSIVE GnpeParameters(_)
GnpeParameters(transforms) ==
    IF transforms = <<>> THEN <<>>
    ELSE InputParameterNames(Head(transforms)) \o GnpeParameters(Tail(transforms))

\* l. 528-542
GnpeTransformPost ==
    <<"SelectStandardizeRepackageParameters", "PostCorrectGeocentTime",
      "CopyToExtrinsicParameters", "GetDetectorTimes">>

InitializeTransforms ==
    /\ gnpe_pc = "new"
    /\ LET gnpe_time_settings == SettingsGet(data_settings, "gnpe_time_shifts")
           gnpe_chirp_settings == SettingsGet(data_settings, "gnpe_chirp")
       IN  IF GnpeSettingsMissing(gnpe_time_settings, gnpe_chirp_settings)
           THEN \* raise KeyError
                /\ gnpe_pc' = "KeyError"
                /\ UNCHANGED <<transform_pre, transform_post, gnpe_parameters>>
           ELSE LET tp == GnpeTransformPre(gnpe_time_settings, gnpe_chirp_settings)
                IN  /\ gnpe_parameters' = Some(GnpeParameters(tp))
                    /\ transform_pre' = Some(tp)
                    /\ transform_post' = Some(GnpeTransformPost)
                    /\ gnpe_pc' = "built"
    /\ UNCHANGED <<data_settings, num_iterations, iteration, batch, proxies,
                   init_draws, model_calls, proxy_src>>
    /\ UNCHANGED <<sampler_vars, call_vars, aux_vars>>

\* ------------------------------------------- the GNPE loop (spec, 4.2)
\* values standing for the content of a sample batch, and for a blur kernel
BatchValues == {0, 1}
Kernels == {0, 1}
NewBatch(id, v) == Some([id |-> id, value |-> v])

GnpeLoopFinishedEarly(k, n) == k >= n - 1

\* Done is entered after exactly N iterations; there is no convergence check
GnpeLoopFinished(k, n) == k = n

\* Init: the initial batch comes from the standalone init model
GnpeInit ==
    /\ gnpe_pc = "built"
    /\ \E v \in BatchValues : batch' = NewBatch(0, v)
    /\ init_draws' = init_draws + 1
    /\ iteration' = 0
    /\ gnpe_pc' = "Init"
    /\ UNCHANGED <<data_settings, transform_pre, transform_post, gnpe_parameters,
                   num_iterations, proxies, model_calls, proxy_src>>
    /\ UNCHANGED <<sampler_vars, call_vars, aux_vars>>

\* Iterate(k): proxies from the current batch, then one draw from the GNPE model
GnpeIterate ==
    /\ gnpe_pc \in {"Init", "Iterate"}
    /\ ~GnpeLoopFinished(iteration, num_iterations)
    /\ iteration' = iteration + 1
    /\ \E kernel \in Kernels :
         proxies' = Some([src |-> Val(batch).id, value |-> Val(batch).value + kernel])
    /\ proxy_src' = Append(proxy_src, Val(batch).id)
    /\ model_calls' = model_calls + 1
    /\ \E v \in BatchValues : batch' = NewBatch(iteration', v)
    /\ gnpe_pc' = "Iterate"
    /\ UNCHANGED <<data_settings, transform_pre, transform_post, gnpe_parameters,
                   num_iterations, init_draws>>
    /\ UNCHANGED <<sampler_vars, call_vars, aux_vars>>

GnpeDone ==
    /\ gnpe_pc \in {"Init", "Iterate"}
    /\ GnpeLoopFinished(iteration, num_iterations)
    /\ gnpe_pc' = "Done"
    /\ UNCHANGED <<data_settings, transform_pre, transform_post, gnpe_parameters,
                   num_iterations, iteration, batch, proxies, init_draws,
                   model_calls, proxy_src>>
    /\ UNCHANGED <<sampler_vars, call_vars, aux_vars>>

InitGNPE ==
    /\ t_ref = RefTime
    /\ event_metadata = None
    /\ synthetic_phase_kwargs = None
    /\ inference_parameters = {"ra", "rest"}
    /\ phase_prior = BuildPhasePrior(BasePrior("Uniform_0_2pi"), inference_parameters)
    /\ prior = BuildPrior(BasePrior("Uniform_0_2pi"), inference_parameters)
    /\ geocent_time_prior = None
    /\ likelihood = None
    /\ NoCalls
    /\ AuxOff
    /\ data_settings \in [{"gnpe_time_shifts", "gnpe_chirp"} -> SettingsEntries]
    /\ num_iterations \in 0..MaxIter
    /\ transform_pre = None
    /\ transform_post = None
    /\ gnpe_parameters = None
    /\ gnpe_pc = "new"
    /\ iteration = 0
    /\ batch = None
    /\ proxies = None
    /\ init_draws = 0
    /\ model_calls = 0
    /\ proxy_src = <<>>

NextGNPE ==
    \/ InitializeTransforms
    \/ GnpeInit
    \/ GnpeIterate
    \/ GnpeDone

SpecGNPE == InitGNPE /\ [][NextGNPE]_vars

\* --------------------- _build_likelihood with arguments (l. 102-168)
\* the kinds of prior over geocent_time: bilby's Uniform, a subclass of it,
\* and a prior of another class
GeocentTimePriors == {"Uniform", "UniformSubclass", "NonUniform"}
\* the time_marginalization_kwargs a caller passes
TimeMarginalizationKwargs ==
    {None, Some([n_fft |-> 1, t_lower |-> None, t_upper |-> None])}

\* l. 121-130: the error raised by the checks of the time marginalization
TimeMarginalizationError(time_marginalization_kwargs, gtp) ==
    IF time_marginalization_kwargs = None THEN "none"
    ELSE IF gtp = None THEN "NotImplementedError"
    ELSE IF Val(gtp) # "Uniform" THEN "NotImplementedError"
    ELSE "none"

\* l. 131-132: the caller's dict gets the bounds of the time prior
WithTimeBounds(time_marginalization_kwargs) ==
    Some([Val(time_marginalization_kwargs) EXCEPT
            !.t_lower = Some("geocent_time_prior.minimum"),
            !.t_upper = Some("geocent_time_prior.maximum")])

PhaseMarginalizationValidAnyUniform(pp) ==
    pp # None /\ Val(pp) \in {"Uniform_0_2pi", "Uniform_other"}

\* l. 136-140
PhaseMarginalizationValid(pp) == pp # None /\ Val(pp) = "Uniform_0_2pi"

\* l. 134-144
PhaseMarginalizationError(phase_marginalization, pp) ==
    IF phase_marginalization /\ ~PhaseMarginalizationValid(pp)
    THEN "ValueError" ELSE "none"

\* one call self._build_likelihood(time_marginalization_kwargs,
\* phase_marginalization)
BuildLikelihoodCall(time_marginalization_kwargs, phase_marginalization) ==
    LET time_error ==
            TimeMarginalizationError(time_marginalization_kwargs,
                                     geocent_time_prior)
        kwargs_after ==
            IF time_marginalization_kwargs # None /\ time_error = "none"
            THEN WithTimeBounds(time_marginalization_kwargs)
            ELSE time_marginalization_kwargs
        phase_error ==
            PhaseMarginalizationError(phase_marginalization, phase_prior)
        error == IF time_error # "none" THEN time_error ELSE phase_error
        at == IF time_error # "none" THEN "time_marginalization"
              ELSE IF phase_error # "none" THEN "phase_marginalization"
              ELSE "none"
    IN  /\ gnpe_pc = "off"
        /\ pc = "init"
        /\ build_call' =
              [time_marginalization_kwargs |-> time_marginalization_kwargs,
               kwargs_after |-> kwargs_after,
               phase_marginalization |-> phase_marginalization,
               result |-> IF error = "none" THEN "ok" ELSE error,
               at |-> at,
               before |-> likelihood,
               constructed |-> IF error = "none" THEN 1 ELSE 0]
        /\ likelihood' =
              IF error = "none"
              THEN NewLikelihood(event_metadata, t_ref, kwargs_after,
                                 phase_marginalization)
              ELSE likelihood
        /\ UNCHANGED <<t_ref, event_metadata, synthetic_phase_kwargs,
                       inference_parameters, phase_prior, geocent_time_prior,
                       prior>>
        /\ UNCHANGED <<call_vars, gnpe_vars, wfg_vars, util_vars>>

\* the sampler as constructed, with every kind of geocent_time prior
InitLikelihood ==
    /\ InitSampler
    /\ geocent_time_prior \in {None} \cup {Some(k) : k \in GeocentTimePriors}
    /\ NoCalls /\ GnpeOff /\ AuxOff

NextLikelihood ==
    \E time_marginalization_kwargs \in TimeMarginalizationKwargs,
       phase_marginalization \in BOOLEAN :
        BuildLikelihoodCall(time_marginalization_kwargs, phase_marginalization)

SpecLikelihood == InitLikelihood /\ [][NextLikelihood]_vars

\* ------------------- waveform generation (waveform_generator.py)
\* the parameters of one waveform, by what happens when it is generated:
\* two that succeed, one that lalsimulation rejects with an input domain
\* error, one that fails with another message, one that fails with an
\* exception without arguments, and one whose values are not floats
Parameters == {"ok_a", "ok_b", "domain_error", "other_error", "no_args_error",
               "not_floats"}
DomainErrorMessage == "Internal function call failed: Input domain error"
NoException == [type |-> "none", args |-> <<>>]
Returned(v) == [result |-> "ok", error |-> NoException, value |-> Some(v)]
Raised(exc) == [result |-> "raise", error |-> exc, value |-> None]

\* a polarization dictionary with every entry of both arrays equal to x
PolDict(x, n) == [pol \in {"h_plus", "h_cross"} |-> [i \in 1..n |-> x]]
\* wf_generator(parameters_lal): the waveform on a domain of n points, or the
\* exception raised
WfGenerator(parameters, n) ==
    IF parameters = "domain_error"
    THEN Raised([type |-> "RuntimeError", args |-> <<DomainErrorMessage>>])
    ELSE IF parameters = "other_error"
    THEN Raised([type |-> "RuntimeError",
                 args |-> <<"Internal function call failed: Generic failure">>])
    ELSE IF parameters = "no_args_error"
    THEN Raised([type |-> "AssertionError", args |-> <<>>])
    ELSE Returned(PolDict(parameters, n))

\* the transforms a generator is constructed with: none, or one that drops
\* the last entry of each array
Transforms == {None, Some("drop_last")}
\* l. 201-204
ApplyTransform(t, wf_dict) ==
    IF t # None
    THEN [pol \in DOMAIN wf_dict |->
            SubSeq(wf_dict[pol], 1, Len(wf_dict[pol]) - 1)]
    ELSE wf_dict

\* l. 184-199 and l. 1172-1185: what the except clause does with exception
\* exc; nan_len is the length of the NaN arrays, None where the expression
\* for it cannot be evaluated
CatchErrors(exc, catch_waveform_errors, nan_len) ==
    IF ~catch_waveform_errors THEN Raised(exc)
    ELSE IF exc.args = <<>>
    THEN Raised([type |-> "IndexError", args |-> <<"tuple index out of range">>])
    ELSE IF exc.args[1] = DomainErrorMessage
    THEN IF nan_len = None
         THEN Raised([type |-> "NameError",
                      args |-> <<"name 'self' is not defined">>])
         ELSE Returned(PolDict("nan", Val(nan_len)))
    ELSE Raised(exc)

\* WaveformGenerator.generate_hplus_hcross (l. 114-204) of a generator with
\* a domain of n points and transform t
GenerateHplusHcross(parameters, catch_waveform_errors, n, t) ==
    IF parameters = "not_floats"
    THEN Raised([type |-> "ValueError",
                 args |-> <<"parameters dictionary must contain floats">>])
    ELSE LET out == WfGenerator(parameters, n)
             wf == IF out.result = "ok" THEN out
                   ELSE CatchErrors(out.error, catch_waveform_errors, Some(n))
         IN  IF wf.result = "ok"
             THEN Returned(ApplyTransform(t, Val(wf.value)))
             ELSE wf

\* generate_waveform_and_catch_errors (l. 1143-1187): a function of the
\* module, so that self at l. 1183 is not defined; len_domain is not used
GenerateWaveformAndCatchErrors(parameters_lal, len_domain, catch_waveform_errors, n) ==
    LET out == WfGenerator(parameters_lal, n)
    IN  IF out.result = "ok" THEN out
        ELSE CatchErrors(out.error, catch_waveform_errors, None)

\* one call waveform_generator.generate_hplus_hcross(parameters, catch)
CallGenerateHplusHcross ==
    /\ par_pc = "idle" /\ wf_call = NoWfCall
    /\ \E parameters \in Parameters, catch_waveform_errors \in BOOLEAN :
        LET out == GenerateHplusHcross(parameters, catch_waveform_errors,
                                       domain_len, wf_transform)
        IN  wf_call' = [fn |-> "generate_hplus_hcross",
                        parameters |-> parameters,
                        catch_waveform_errors |-> catch_waveform_errors,
                        result |-> out.result, error |-> out.error,
                        value |-> out.value]
    /\ UNCHANGED <<domain_len, wf_transform, parameter_samples, pool, par_pc,
                   running, completed, polarizations_list, polarizations>>
    /\ UNCHANGED <<sampler_vars, call_vars, gnpe_vars, build_call, util_vars>>

\* one call generate_waveform_and_catch_errors(wf_generator_func,
\* parameters_lal, len_domain, catch) with len_domain = len(domain)
CallGenerateWaveformAndCatchErrors ==
    /\ par_pc = "idle" /\ wf_call = NoWfCall
    /\ \E parameters_lal \in Parameters \ {"not_floats"},
          catch_waveform_errors \in BOOLEAN :
        LET out == GenerateWaveformAndCatchErrors(parameters_lal, domain_len,
                        catch_waveform_errors, domain_len)
        IN  wf_call' = [fn |-> "generate_waveform_and_catch_errors",
                        parameters |-> parameters_lal,
                        catch_waveform_errors |-> catch_waveform_errors,
                        result |-> out.result, error |-> out.error,
                        value |-> out.value]
    /\ UNCHANGED <<domain_len, wf_transform, parameter_samples, pool, par_pc,
                   running, completed, polarizations_list, polarizations>>
    /\ UNCHANGED <<sampler_vars, call_vars, gnpe_vars, build_call, util_vars>>

\* l. 1102: the task of one row, with the default catch_waveform_errors
TaskFunc(parameters, n, t) == GenerateHplusHcross(parameters, TRUE, n, t)

\* l. 1136-1139: the results stacked per polarization
Stack(list) ==
    IF list = <<>>
    THEN Raised([type |-> "IndexError", args |-> <<"list index out of range">>])
    ELSE Returned([pol \in DOMAIN Val(list[1].value) |->
                     [i \in 1..Len(list) |-> Val(list[i].value)[pol]]])

\* l. 1135-1140: without a pool the rows are mapped in order and the first
\* exception ends the call
Sequential(rows, n, t) ==
    LET list == [i \in 1..Len(rows) |-> TaskFunc(rows[i], n, t)]
        failed == {i \in 1..Len(rows) : list[i].result = "raise"}
    IN  IF failed # {}
        THEN list[CHOOSE i \in failed : \A j \in failed : i <= j]
        ELSE Stack(list)

\* the batches of parameters
ParameterSamples == UNION {[1..n -> Parameters] : n \in 0..MaxRows}
Pools == {None} \cup {Some(w) : w \in 1..MaxWorkers}

\* generate_waveforms_parallel is called: without a pool it runs to its end,
\* with a pool the rows become the tasks of pool.map
ParallelStart ==
    /\ par_pc = "idle" /\ wf_call = NoWfCall
    /\ \E rows \in ParameterSamples, p \in Pools :
        /\ parameter_samples' = rows
        /\ pool' = p
        /\ running' = {}
        /\ completed' = <<>>
        /\ IF p = None
           THEN /\ par_pc' = "done"
                /\ polarizations_list' = <<>>
                /\ polarizations' = Some(Sequential(rows, domain_len, wf_transform))
           ELSE /\ par_pc' = "map"
                /\ polarizations_list' = [i \in 1..Len(rows) |-> None]
                /\ polarizations' = None
    /\ UNCHANGED <<domain_len, wf_transform, wf_call>>
    /\ UNCHANGED <<sampler_vars, call_vars, gnpe_vars, build_call, util_vars>>

\* a free worker of the pool takes the next row
TakeTask ==
    /\ par_pc = "map"
    /\ Cardinality(running) < Val(pool)
    /\ Len(completed) + Cardinality(running) < Len(parameter_samples)
    /\ running' = running \cup {Len(completed) + Cardinality(running) + 1}
    /\ UNCHANGED <<domain_len, wf_transform, wf_call, parameter_samples, pool,
                   par_pc, completed, polarizations_list, polarizations>>
    /\ UNCHANGED <<sampler_vars, call_vars, gnpe_vars, build_call, util_vars>>

StoreResultInCompletionOrder(list, i, done, result) ==
    [list EXCEPT ![Len(done) + 1] = Some(result)]

\* pool.map: the result of task i becomes entry i of the list
StoreResult(list, i, done, result) == [list EXCEPT ![i] = Some(result)]

\* a worker completes its row; the first exception is kept for the caller
CompleteTask(i) ==
    /\ par_pc = "map"
    /\ i \in running
    /\ LET out == TaskFunc(parameter_samples[i], domain_len, wf_transform)
       IN  /\ polarizations_list' =
                 StoreResult(polarizations_list, i, completed, out)
           /\ polarizations' =
                 IF out.result = "raise" /\ polarizations = None
                 THEN Some(out) ELSE polarizations
    /\ running' = running \ {i}
    /\ completed' = Append(completed, i)
    /\ UNCHANGED <<domain_len, wf_transform, wf_call, parameter_samples, pool,
                   par_pc>>
    /\ UNCHANGED <<sampler_vars, call_vars, gnpe_vars, build_call, util_vars>>

\* pool.map returns when every task is done, or raises the exception kept;
\* l. 1136-1140 stack the list
MapReturns ==
    /\ par_pc = "map"
    /\ Len(completed) = Len(parameter_samples)
    /\ par_pc' = "done"
    /\ polarizations' =
          IF polarizations # None THEN polarizations
          ELSE Some(Stack([i \in 1..Len(polarizations_list) |->
                             Val(polarizations_list[i])]))
    /\ UNCHANGED <<domain_len, wf_transform, wf_call, parameter_samples, pool,
                   running, completed, polarizations_list>>
    /\ UNCHANGED <<sampler_vars, call_vars, gnpe_vars, build_call, util_vars>>

\* the result is with the caller; the generator is free for the next call
WfgReturn ==
    /\ par_pc = "done" \/ wf_call # NoWfCall
    /\ par_pc' = "idle"
    /\ wf_call' = NoWfCall
    /\ parameter_samples' = <<>>
    /\ pool' = None
    /\ running' = {}
    /\ completed' = <<>>
    /\ polarizations_list' = <<>>
    /\ polarizations' = None
    /\ UNCHANGED <<domain_len, wf_transform>>
    /\ UNCHANGED <<sampler_vars, call_vars, gnpe_vars, build_call, util_vars>>

\* WaveformGenerator.__init__ (l. 27-112), no sampler in use
InitWFG ==
    /\ t_ref = RefTime
    /\ event_metadata = None
    /\ synthetic_phase_kwargs = None
    /\ inference_parameters = {"ra", "rest"}
    /\ phase_prior = BuildPhasePrior(BasePrior("Uniform_0_2pi"), inference_parameters)
    /\ geocent_time_prior = None
    /\ prior = BuildPrior(BasePrior("Uniform_0_2pi"), inference_parameters)
    /\ likelihood = None
    /\ NoCalls /\ GnpeOff
    /\ build_call = NoBuildCall
    /\ UtilOff
    /\ domain_len \in 1..MaxDomain
    /\ wf_transform \in Transforms
    /\ wf_call = NoWfCall
    /\ parameter_samples = <<>>
    /\ pool = None
    /\ par_pc = "idle"
    /\ running = {}
    /\ completed = <<>>
    /\ polarizations_list = <<>>
    /\ polarizations = None

NextWFG ==
    \/ CallGenerateHplusHcross
    \/ CallGenerateWaveformAndCatchErrors
    \/ ParallelStart
    \/ TakeTask
    \/ \E i \in 1..MaxRows : CompleteTask(i)
    \/ MapReturns
    \/ WfgReturn

SpecWFG == InitWFG /\ [][NextWFG]_vars

\* no sampler and no waveform generator is in use
NoSampler ==
    /\ t_ref = RefTime
    /\ event_metadata = None
    /\ synthetic_phase_kwargs = None
    /\ inference_parameters = {"ra", "rest"}
    /\ phase_prior = BuildPhasePrior(BasePrior("Uniform_0_2pi"), inference_parameters)
    /\ geocent_time_prior = None
    /\ prior = BuildPrior(BasePrior("Uniform_0_2pi"), inference_parameters)
    /\ likelihood = None
    /\ NoCalls /\ GnpeOff
    /\ build_call = NoBuildCall
    /\ WfgOff

\* ------------------- sum_over_l (waveform_generator.py l. 1244-1286)
\* the (l, m) modes of a dictionary of mode arrays
Modes == {<<2, 2>>, <<3, 2>>, <<2, -2>>, <<2, 1>>}
\* the arrays of a mode, each standing for an array with that value in
\* every entry
ArrayDicts == {[h_plus |-> a, h_cross |-> 2 * a] : a \in 1..2}
\* a dictionary is the sequence of its items (mode, array_dict), in the order
\* of insertion, no mode twice
ModeDicts ==
    UNION {{d \in [1..n -> [mode : Modes, arrays : ArrayDicts]] :
              \A i, j \in 1..n : i # j => d[i].mode # d[j].mode}
           : n \in 0..MaxModes}
Abs(x) == IF x < 0 THEN 0 - x ELSE x

\* l. 1277-1285: the loop over the items from item i on.  summed_dict is
\* given by alias: for each of its keys the item of fd whose array_dict
\* object it holds (l. 1282 stores the object itself, no copy), so that the
\* += of l. 1285 acts on the arrays of that item.
RECURSIVE SumLoop(_, _, _)
SumLoop(fd, i, alias) ==
    IF i > Len(fd) THEN [fd |-> fd, alias |-> alias]
    ELSE LET mode_key == <<-1, Abs(fd[i].mode[2])>>
         IN  IF mode_key \notin DOMAIN alias
             THEN SumLoop(fd, i + 1,
                          [k \in DOMAIN alias \cup {mode_key} |->
                              IF k = mode_key THEN i ELSE alias[k]])
             ELSE SumLoop([fd EXCEPT ![alias[mode_key]].arrays =
                              [array_key \in DOMAIN @ |->
                                  @[array_key] + fd[i].arrays[array_key]]],
                          i + 1, alias)

\* sum_over_l(fd): the dictionary returned, and fd as the call leaves it
SumOverL(fd) ==
    LET end == SumLoop(fd, 1, <<>>)
    IN  [summed_dict |-> [k \in DOMAIN end.alias |-> end.fd[end.alias[k]].arrays],
         fd_modearray_dict |-> end.fd]

\* one call sum_over_l(fd_modearray_dict) on the caller's dictionary
SumOverLCall ==
    /\ Len(sum_calls) < MaxCalls
    /\ LET out == SumOverL(fd_modearray_dict)
       IN  /\ fd_modearray_dict' = out.fd_modearray_dict
           /\ sum_calls' = Append(sum_calls,
                                  [before |-> fd_modearray_dict,
                                   summed_dict |-> out.summed_dict])
    /\ UNCHANGED <<dataset_domain, Vh, is_truncated, truncate_call, history_file,
                   epochs_written, history_call, limits, limits_call>>
    /\ UNCHANGED <<sampler_vars, call_vars, gnpe_vars, build_call, wfg_vars>>

InitModes ==
    /\ NoSampler
    /\ fd_modearray_dict \in ModeDicts
    /\ sum_calls = <<>>
    /\ DatasetOff /\ HistoryOff /\ LimitsOff

NextModes == SumOverLCall

SpecModes == InitModes /\ [][NextModes]_vars

\* ------------- WaveformDataset.truncate_dataset_domain (waveform_dataset.py)
\* the range of a uniform frequency domain with bins 0 .. f_max, of which
\* the bins f_min .. f_max are kept by a truncation
DomainRanges ==
    {d \in [f_min : 0..MaxFreq, f_max : 1..MaxFreq] : d.f_min < d.f_max}
\* len(self.domain)
LenDomain(d) == d.f_max + 1
\* the ranges new_range that domain.set_new_range accepts: inside the range
\* the domain has
NewRanges(d) ==
    {<<lo, hi>> \in (0..MaxFreq) \X (1..MaxFreq) :
        d.f_min <= lo /\ lo < hi /\ hi <= d.f_max}
\* self.domain.set_new_range(*new_range)
SetNewRange(d, new_range) == [f_min |-> new_range[1], f_max |-> new_range[2]]
\* self._Vh is modelled by its shape; the shape of the data that
\* self.domain.truncate_data returns for data of that shape
TruncateData(d, shape) ==
    [shape EXCEPT ![Len(shape)] = d.f_max - d.f_min + 1]

\* self._Vh after load (l. 96-113): the matrix of the file with any number
\* of columns, or for a file without matrix what np.array(None, dtype)
\* makes of the None of l. 34: a 0-d array (shape ()), or None where no
\* conversion takes place
LoadedVh ==
    {None, Some(<<>>)} \cup {Some(<<1, n>>) : n \in 1..(MaxFreq + 1)}

AlreadyTruncatedIgnored(flag) == FALSE

\* l. 135
AlreadyTruncated(flag) == flag

\* one call self.truncate_dataset_domain(new_range)
TruncateDatasetDomain(new_range) ==
    LET d == Val(dataset_domain)
        len_domain_original == LenDomain(d)
        d1 == IF new_range # None THEN SetNewRange(d, Val(new_range)) ELSE d
        result ==
            IF AlreadyTruncated(is_truncated) THEN "ValueError"
            ELSE IF Vh = None THEN "NotImplementedError"
            ELSE IF Val(Vh) = <<>> THEN "IndexError"
            ELSE IF Val(Vh)[Len(Val(Vh))] # len_domain_original
            THEN "AssertionError"
            ELSE "ok"
    IN  /\ dataset_domain # None
        /\ truncate_call' =
              [new_range |-> new_range, result |-> result,
               before |-> Some([dataset_domain |-> d, Vh |-> Vh,
                                is_truncated |-> is_truncated]),
               n_ok |-> truncate_call.n_ok + (IF result = "ok" THEN 1 ELSE 0)]
        /\ dataset_domain' = IF result = "ValueError" THEN dataset_domain
                             ELSE Some(d1)
        /\ Vh' = IF result = "ok" THEN Some(TruncateData(d1, Val(Vh))) ELSE Vh
        /\ is_truncated' = IF result = "ok" THEN TRUE ELSE is_truncated
        /\ UNCHANGED <<fd_modearray_dict, sum_calls, history_file,
                       epochs_written, history_call, limits, limits_call>>
        /\ UNCHANGED <<sampler_vars, call_vars, gnpe_vars, build_call, wfg_vars>>

\* WaveformDataset.__init__ and load (l. 23-113)
InitDataset ==
    /\ NoSampler
    /\ dataset_domain \in {Some(d) : d \in DomainRanges}
    /\ Vh \in LoadedVh
    /\ is_truncated = FALSE
    /\ truncate_call = NoTruncateCall
    /\ ModesOff /\ HistoryOff /\ LimitsOff

NextDataset ==
    \E new_range \in {None} \cup {Some(nr) : nr \in NewRanges(Val(dataset_domain))} :
        TruncateDatasetDomain(new_range)

SpecDataset == InitDataset /\ [][NextDataset]_vars

\* ======================================================== write_history
\* trainutils.py l. 176-215. The history file is None when it does not exist
\* and otherwise holds the sequence of its rows; a row is modelled by its first
\* two fields (epoch, train_loss), the other fields are data of the same kind.
Losses == {7, 8}
Rows == [epoch : 1..MaxEpoch, train_loss : Losses]
\* the rows of a file, none for a file that does not exist
Contents(file) == IF file = None THEN <<>> ELSE Val(file)
\* isfile(history_file), l. 209
IsFile(file) == file # None
\* a faulty OpenMode, for comparison: the file is truncated in every epoch
OpenModeTruncating(epoch) == "w"
\* the mode of open(), l. 213
OpenMode(epoch) == IF epoch = 1 THEN "w" ELSE "a"
\* open(history_file, mode) followed by one writerow, l. 213-215:
\* "w" creates or empties the file, "a" creates it or keeps its rows
WriteRow(file, mode, row) ==
    IF mode = "w" THEN Some(<<row>>) ELSE Some(Append(Contents(file), row))

\* write_history(log_dir, epoch, train_loss, ...), l. 176-215
WriteHistory(row) ==
    LET epoch == row.epoch
        aborted == epoch = 1 /\ IsFile(history_file)
        mode == OpenMode(epoch)
    IN  /\ Len(epochs_written) < MaxEpoch
        /\ history_call' =
              [epoch |-> Some(epoch),
               result |-> IF aborted THEN "AssertionError" ELSE "ok",
               mode |-> IF aborted THEN "none" ELSE mode,
               before |-> Some(history_file)]
        /\ history_file' = IF aborted THEN history_file
                           ELSE WriteRow(history_file, mode, row)
        /\ epochs_written' = IF aborted THEN epochs_written
                             ELSE Append(epochs_written, row)
        /\ UNCHANGED <<fd_modearray_dict, sum_calls, dataset_domain, Vh,
                       is_truncated, truncate_call, limits, limits_call>>
        /\ UNCHANGED <<sampler_vars, call_vars, gnpe_vars, build_call, wfg_vars>>

\* a log directory that is fresh, or holds a history file of an earlier run
InitHistory ==
    /\ NoSampler
    /\ history_file \in {None, Some(<<>>)} \cup {Some(<<r>>) : r \in Rows}
    /\ epochs_written = <<>>
    /\ history_call = NoHistoryCall
    /\ ModesOff /\ DatasetOff /\ LimitsOff

NextHistory == \E row \in Rows : WriteHistory(row)

SpecHistory == InitHistory /\ [][NextHistory]_vars

\* ======================================================== RuntimeLimits
\* trainutils.py l. 73-173. A limit is None or a number; elapsed is the reading
\* time.time() - self.time_start of the clock at the time of the call.
OptionalOf(S) == {None} \cup {Some(x) : x \in S}
LimitSettings ==
    [max_time_per_run : OptionalOf(0..MaxClock),
     max_epochs_per_run : OptionalOf(0..MaxEpoch),
     max_epochs_total : OptionalOf(0..MaxEpoch),
     epoch_start : OptionalOf(0..1)]
\* a faulty LimitReached, for comparison: a limit counts only once it is passed
LimitPassed(value, limit) == value > limit
\* the comparisons of l. 124, 133 and 140
LimitReached(value, limit) == value >= limit

\* RuntimeLimits.__init__, l. 79-106
EpochStartMissing(args) ==
    args.max_epochs_per_run # None /\ args.epoch_start = None
NewRuntimeLimits(args) ==
    /\ limits = None
    /\ limits' = IF EpochStartMissing(args) THEN None ELSE Some(args)
    /\ limits_call' =
          [fn |-> "__init__", args |-> Some(args), epoch |-> None, elapsed |-> 0,
           result |-> IF EpochStartMissing(args) THEN "ValueError" ELSE "ok"]
    /\ UNCHANGED <<fd_modearray_dict, sum_calls, dataset_domain, Vh,
                   is_truncated, truncate_call, history_file, epochs_written,
                   history_call>>
    /\ UNCHANGED <<sampler_vars, call_vars, gnpe_vars, build_call, wfg_vars>>

\* the time check of l. 123-128 and l. 163-165
TimeLimitExceeded(self, elapsed) ==
    /\ self.max_time_per_run # None
    /\ LimitReached(elapsed, Val(self.max_time_per_run))
\* the check of the epochs of the run, l. 130-137 and l. 167-171:
\* "none" when the check lets the call go on
EpochsPerRunCheck(self, epoch) ==
    IF self.max_epochs_per_run = None THEN "none"
    ELSE IF epoch = None THEN "ValueError"
    ELSE IF LimitReached(Val(epoch) - Val(self.epoch_start),
                         Val(self.max_epochs_per_run))
    THEN "True"
    ELSE "none"
\* the check of the total number of epochs, l. 139-144: comparing None with a
\* number raises TypeError
EpochsTotalCheck(self, epoch) ==
    IF self.max_epochs_total = None THEN "none"
    ELSE IF epoch = None THEN "TypeError"
    ELSE IF LimitReached(Val(epoch), Val(self.max_epochs_total)) THEN "True"
    ELSE "none"
\* limits_exceeded, l. 108-146
LimitsExceededResult(self, epoch, elapsed) ==
    IF TimeLimitExceeded(self, elapsed) THEN "True"
    ELSE IF EpochsPerRunCheck(self, epoch) # "none"
    THEN EpochsPerRunCheck(self, epoch)
    ELSE IF EpochsTotalCheck(self, epoch) # "none"
    THEN EpochsTotalCheck(self, epoch)
    ELSE "False"
\* local_limits_exceeded, l. 148-173
LocalLimitsExceededResult(self, epoch, elapsed) ==
    IF TimeLimitExceeded(self, elapsed) THEN "True"
    ELSE IF EpochsPerRunCheck(self, epoch) # "none"
    THEN EpochsPerRunCheck(self, epoch)
    ELSE "False"

LimitsCallUnchanged ==
    /\ UNCHANGED <<fd_modearray_dict, sum_calls, dataset_domain, Vh,
                   is_truncated, truncate_call, history_file, epochs_written,
                   history_call, limits>>
    /\ UNCHANGED <<sampler_vars, call_vars, gnpe_vars, build_call, wfg_vars>>

LimitsExceeded(epoch, elapsed) ==
    /\ limits # None
    /\ limits_call' =
          [fn |-> "limits_exceeded", args |-> None, epoch |-> epoch,
           elapsed |-> elapsed,
           result |-> LimitsExceededResult(Val(limits), epoch, elapsed)]
    /\ LimitsCallUnchanged

LocalLimitsExceeded(epoch, elapsed) ==
    /\ limits # None
    /\ limits_call' =
          [fn |-> "local_limits_exceeded", args |-> None, epoch |-> epoch,
           elapsed |-> elapsed,
           result |-> LocalLimitsExceededResult(Val(limits), epoch, elapsed)]
    /\ LimitsCallUnchanged

InitLimits ==
    /\ NoSampler
    /\ LimitsOff
    /\ ModesOff /\ DatasetOff /\ HistoryOff

NextLimits ==
    \/ \E args \in LimitSettings : NewRuntimeLimits(args)
    \/ \E epoch \in OptionalOf(0..MaxEpoch), elapsed \in 0..MaxClock :
          \/ LimitsExceeded(epoch, elapsed)
          \/ LocalLimitsExceeded(epoch, elapsed)

SpecLimits == InitLimits /\ [][NextLimits]_vars

\* ======================================================== the claims
\* what the claims observe of a call
AfterCall == call.fn = "_post_process"
AfterForward == AfterCall /\ ~call.inverse
\* the event time of the run, None when there is none
EventTime ==
    IF event_metadata = None THEN None
    ELSE IF "time_event" \notin Val(event_metadata).keys THEN None
    ELSE Val(event_metadata).time_event
TimesDiffer == EventTime # None /\ Val(EventTime) # t_ref
\* the table as _post_correct_for_tref left it
TrefOut == IF synth_in # None THEN Val(synth_in) ELSE samples
\* the ra the correction has to produce for row i of the table the call got
ExpectedRa(i, inverse) ==
    LET ra == pre.samples["ra"][i]
        delta == (Val(EventTime) % TwoPi) - (t_ref % TwoPi)
    IN  IF ~TimesDiffer THEN ra
        ELSE IF inverse THEN (ra - delta) % TwoPi ELSE (ra + delta) % TwoPi
\* row i of table S lies in the support of the prior
InSupport(S, i) == S["rest"][i] = "in" /\ 0 <= S["ra"][i] /\ S["ra"][i] <= TwoPi
SupportRank(S, i) == Cardinality({j \in 1..i : InSupport(S, j)})

\* C1: with no event time, or an event time equal to t_ref, the reference-time
\* correction (forward or inverse) leaves every column of the samples as it was.
C1_NoOpWhenTimesMatch ==
    (AfterCall /\ (EventTime = None \/ Val(EventTime) = t_ref))
        => TrefOut = pre.samples

C1_Witness ==
    /\ AfterCall /\ call.inverse
    /\ EventTime = Some(t_ref)
    /\ pre.samples["ra"][1] = -1
    /\ TrefOut = pre.samples

\* C2: for an event time different from t_ref, the correction followed by its
\* inverse returns every ra to its original value modulo 2 pi.
C2_RoundTrip ==
    (pc = "round_trip" /\ TimesDiffer)
        => \A i \in 1..NRows(orig) :
              (samples["ra"][i] - orig["ra"][i]) % TwoPi = 0

C2_Witness ==
    /\ pc = "round_trip" /\ TimesDiffer
    /\ pre.samples["ra"] # samples["ra"]
    /\ orig["ra"][1] = -1
    /\ samples["ra"][1] = TwoPi - 1

\* C3: after a forward _sample_synthetic_phase call (one that got past the
\* check of the phase prior) every row outside the prior support has phase 0
\* and log_prob -inf.
C3_SyntheticPhaseExclusion ==
    (AfterForward /\ synth_in # None /\ call.at # "phase_prior")
        => \A i \in 1..NRows(samples) :
              ~InSupport(Val(synth_in), i)
                  => /\ "phase" \in Columns(samples)
                     /\ samples["phase"][i] = 0
                     /\ samples["log_prob"][i] = NegInf

C5_FailFastOnPhasePrior ==
    (AfterForward /\ synth_in # None
        /\ (phase_prior = None \/ Val(phase_prior) # "Uniform_0_2pi"))
        => /\ call.result = "ValueError"
           /\ call.at = "phase_prior"
           /\ {"ln_prob", "evaluate_constraints", "build_likelihood",
               "d_inner_h_complex_multi"} \cap Range(trace) = {}
           /\ lik_arg = None
           /\ samples = Val(synth_in)
           /\ prior = pre.prior
           /\ likelihood = pre.likelihood

C5_Witness ==
    /\ AfterForward /\ synth_in # None
    /\ phase_prior = None
    /\ call.result = "ValueError"
    /\ samples = Val(synth_in)

\* C6: in every _post_process call the reference-time correction runs first and
\* always; the synthetic-phase step runs exactly when synthetic_phase_kwargs is
\* not None, and its likelihood evaluation sees the corrected ra.
C6_OrderingOfCorrections ==
    AfterCall =>
        /\ Len(trace) >= 1 /\ trace[1] = "post_correct_for_tref"
        /\ \A i \in 2..Len(trace) : trace[i] # "post_correct_for_tref"
        /\ (synthetic_phase_kwargs # None) <=> ("synthetic_phase" \in Range(trace))
        /\ (synthetic_phase_kwargs # None) <=> (synth_in # None)
        /\ lik_arg # None =>
             LET corrected == [i \in 1..NRows(pre.samples) |-> ExpectedRa(i, call.inverse)]
                 mask == [i \in 1..NRows(pre.samples) |->
                            pre.samples["rest"][i] = "in"
                            /\ 0 <= corrected[i] /\ corrected[i] <= TwoPi]
             IN  Val(lik_arg)["ra"] = Select(corrected, mask)

C6_Witness ==
    /\ AfterForward /\ TimesDiffer
    /\ lik_arg # None
    /\ NRows(Val(lik_arg)) = 1
    /\ pre.samples["ra"][1] = 1
    /\ Val(lik_arg)["ra"][1] = 2

\* C9 as stated: after a forward _post_process the column set is exactly
\* inference_parameters with log_prob.
C9_ColumnSetAsStated ==
    AfterForward => Columns(samples) = inference_parameters \cup {"log_prob"}

\* C9, amended: after a forward _post_process the column set is
\* inference_parameters with log_prob, and with phase exactly when the
\* synthetic-phase reconstruction is enabled and has completed.
C9_ColumnSet ==
    AfterForward =>
        Columns(samples) =
            inference_parameters \cup {"log_prob"}
            \cup (IF synthetic_phase_kwargs # None /\ call.result = "ok"
                  THEN {"phase"} ELSE {})

C9_Witness ==
    /\ AfterForward /\ call.result = "ok"
    /\ synthetic_phase_kwargs # None
    /\ "phase" \notin inference_parameters
    /\ Columns(samples) = {"ra", "rest", "log_prob", "phase"}

\* C10: a forward _post_process followed by an inverse one restores the samples:
\* the same columns, ra up to a multiple of 2 pi, every other column and
\* log_prob exactly.
C10_Invertibility ==
    pc = "round_trip" =>
        /\ Columns(samples) = Columns(orig)
        /\ \A c \in Columns(orig) \cap Columns(samples) :
             IF c = "ra"
             THEN \A i \in 1..NRows(orig) : (samples[c][i] - orig[c][i]) % TwoPi = 0
             ELSE samples[c] = orig[c]

\* C7: building the transforms with neither a time-based nor a chirp-based
\* configuration fails before transform_pre, transform_post or gnpe_parameters
\* is set; with at least one of them it does not fail.
C7_GnpeConstructionFailure ==
    gnpe_pc \notin {"off", "new"} =>
        IF data_settings["gnpe_time_shifts"] # "config"
           /\ data_settings["gnpe_chirp"] # "config"
        THEN /\ gnpe_pc = "KeyError"
             /\ transform_pre = None /\ transform_post = None
             /\ gnpe_parameters = None
        ELSE /\ gnpe_pc # "KeyError"
             /\ transform_pre # None /\ transform_post # None
             /\ gnpe_parameters # None

C7_Witness ==
    /\ gnpe_pc = "KeyError"
    /\ data_settings["gnpe_time_shifts"] = "absent"
    /\ data_settings["gnpe_chirp"] = "absent"
    /\ transform_pre = None /\ gnpe_parameters = None

\* C8: the loop with num_iterations = k draws once from the init model, calls
\* the GNPE model once per iteration and exactly k times when Done, and the
\* proxies of iteration i come from the batch of iteration i - 1.
C8_GnpeIterationCount ==
    /\ model_calls = iteration
    /\ iteration <= num_iterations
    /\ Len(proxy_src) = iteration
    /\ \A i \in 1..Len(proxy_src) : proxy_src[i] = i - 1
    /\ proxies # None => Val(proxies).src = iteration - 1
    /\ batch # None => Val(batch).id = iteration
    /\ gnpe_pc \in {"Init", "Iterate", "Done"} => init_draws = 1
    /\ gnpe_pc \in {"off", "new", "KeyError", "built"} => init_draws = 0 /\ iteration = 0
    /\ gnpe_pc = "Done" => model_calls = num_iterations

C8_Witness ==
    /\ gnpe_pc = "Done"
    /\ num_iterations = MaxIter
    /\ model_calls = MaxIter
    /\ init_draws = 1
    /\ proxy_src = [i \in 1..MaxIter |-> i - 1]

\* ---------------------------------------------------------------------
\* the settings of a call that ran the synthetic phase step, and its record
Kwargs == Val(synthetic_phase_kwargs)
\* the number of times an entry occurs in a sequence
Occurrences(seq, x) == Cardinality({i \in DOMAIN seq : seq[i] = x})
\* the position of the first occurrence of an entry, 0 when there is none
FirstIndex(seq, x) ==
    IF x \in Range(seq) THEN CHOOSE i \in DOMAIN seq :
                                seq[i] = x /\ \A j \in 1..(i - 1) : seq[j] # x
    ELSE 0
\* the rows of the table the synthetic phase step got that lie in the prior
SupportRows == {i \in 1..NRows(Val(synth_in)) : InSupport(Val(synth_in), i)}

\* C16: when an event time different from t_ref is present, the
\* reference-time correction maps ra to (ra + delta) mod 2 pi (forward) or
\* (ra - delta) mod 2 pi (inverse) with one delta for all rows, and leaves
\* every other column (log_prob included), the prior and the likelihood as
\* they were.
C16_TrefTouchesOnlyRa ==
    (AfterCall /\ TimesDiffer) =>
        /\ Columns(TrefOut) = Columns(pre.samples)
        /\ \A c \in Columns(TrefOut) \ {"ra"} : TrefOut[c] = pre.samples[c]
        /\ Len(TrefOut["ra"]) = NRows(pre.samples)
        /\ \A i \in 1..NRows(pre.samples) :
              TrefOut["ra"][i] = ExpectedRa(i, call.inverse)
        /\ \E delta \in (0 - TwoPi)..TwoPi :
              \A i \in 1..NRows(pre.samples) :
                 TrefOut["ra"][i] =
                    (pre.samples["ra"][i]
                        + (IF call.inverse THEN 0 - delta ELSE delta)) % TwoPi
        /\ synth.lik_calls = 0
              => (prior = pre.prior /\ likelihood = pre.likelihood)

C16_Witness ==
    /\ AfterCall /\ call.inverse /\ TimesDiffer
    /\ NRows(pre.samples) = 2
    /\ pre.samples["ra"] = <<1, TwoPi - 1>>
    /\ TrefOut["ra"] # pre.samples["ra"]
    /\ TrefOut["log_prob"] = pre.samples["log_prob"]
    /\ pre.likelihood # None
    /\ likelihood = pre.likelihood

\* C20: after a forward synthetic phase step that completed, the prior has
\* the entry "phase" equal to the phase prior that was split off and the
\* likelihood attribute is None; a call that evaluates the likelihood has
\* built it itself, before the evaluation.
C20_StateAfterSyntheticPhase ==
    /\ (AfterForward /\ synth_in # None /\ call.result = "ok")
          => /\ "phase" \in DOMAIN prior
             /\ prior["phase"] = Val(phase_prior)
             /\ \A k \in DOMAIN pre.prior \ {"phase"} : prior[k] = pre.prior[k]
             /\ likelihood = None
    /\ (AfterCall /\ synth.lik_calls > 0)
          => /\ Occurrences(trace, "build_likelihood") = 1
             /\ FirstIndex(trace, "build_likelihood")
                    < FirstIndex(trace, "d_inner_h_complex_multi")
             /\ synth.likelihood_used = BuildLikelihood(event_metadata, t_ref)

C20_Witness ==
    /\ AfterForward /\ synth_in # None /\ call.result = "ok"
    /\ synth.lik_calls = 1
    /\ pre.likelihood # None
    /\ "phase" \notin DOMAIN pre.prior
    /\ "phase" \in DOMAIN prior
    /\ likelihood = None

\* C17: a forward synthetic phase step that got past the check of the phase
\* prior evaluates the likelihood exactly once, on a table that holds exactly
\* the in-prior rows of its input, in their order, each with phase 0.
C17_OneLikelihoodCall ==
    (AfterForward /\ synth_in # None /\ call.at # "phase_prior")
        => /\ synth.lik_calls = 1
           /\ Occurrences(trace, "d_inner_h_complex_multi") = 1
           /\ lik_arg # None
           /\ LET arg == Val(lik_arg)
                  S == Val(synth_in)
              IN  /\ Columns(arg) = (Columns(S) \ {"log_prob"}) \cup {"phase"}
                  /\ \A c \in Columns(arg) : Len(arg[c]) = Cardinality(SupportRows)
                  /\ \A j \in 1..NRows(arg) : arg["phase"][j] = 0
                  /\ \A i \in SupportRows :
                        \A c \in Columns(arg) \ {"phase"} :
                           arg[c][SupportRank(S, i)] = S[c][i]

C17_Witness ==
    /\ AfterForward /\ synth_in # None /\ call.result = "ok"
    /\ NRows(Val(synth_in)) = 2
    /\ SupportRows = {2}
    /\ NRows(Val(lik_arg)) = 1
    /\ Val(lik_arg)["ra"] = <<Val(synth_in)["ra"][2]>>
    /\ Val(lik_arg)["phase"] = <<0>>

\* C19: the phase grid of a synthetic phase step has n_grid values, starts at
\* 0, rises in equal steps, and lies in [0, 2 pi): 2 pi is not a grid point.
C19_PhaseGridRange ==
    (AfterForward /\ synth.phases # None)
        => LET phases == Val(synth.phases)
           IN  /\ Len(phases) = Kwargs.n_grid
               /\ phases[1] = 0
               /\ \A j \in 2..Len(phases) :
                     /\ phases[j] > phases[j - 1]
                     /\ phases[j] - phases[j - 1] = phases[2] - phases[1]
               /\ \A j \in 1..Len(phases) : 0 <= phases[j] /\ phases[j] < TwoPi

\* C18: for every number R >= 1 of in-prior rows the step computes a phase
\* posterior whose row r is exp(row r of the log-posterior minus the maximum
\* of that row): the largest exponent of every row is 0 and none is above 0.
C18_PerRowStabilization ==
    (AfterForward /\ synth.lik_calls = 1 /\ NRows(Val(lik_arg)) >= 1)
        => /\ synth.phase_posterior # None
           /\ LET lp == Val(synth.phase_log_posterior)
                  e == Val(synth.phase_posterior)
              IN  /\ Len(e) = NRows(Val(lik_arg))
                  /\ \A r \in 1..Len(e) :
                        /\ \E j \in DOMAIN e[r] : e[r][j] = 0
                        /\ \A j \in DOMAIN e[r] :
                              /\ e[r][j] <= 0
                              /\ \E k \in DOMAIN lp[r] :
                                    /\ \A l \in DOMAIN lp[r] : lp[r][l] <= lp[r][k]
                                    /\ e[r][j] = lp[r][j] - lp[r][k]

\* C11: when the settings carry a uniform_weight > 0, the fit of the phase
\* density is given a uniform background of that weight, and the log-density
\* added to log_prob is above -inf for every in-prior row.
C11_MassCoveringFloor ==
    (AfterForward /\ synth.fit # None /\ Kwargs.uniform_weight > 0)
        => /\ "uniform_weight" \in DOMAIN Val(synth.fit)
           /\ Val(synth.fit)["uniform_weight"] = Kwargs.uniform_weight
           /\ \A r \in DOMAIN Val(drawn).delta_log_prob :
                 Val(drawn).delta_log_prob[r] > NegInf

\* C15: _build_likelihood raises when time marginalization is asked for and
\* the geocent_time prior is missing or not a Uniform prior, and when phase
\* marginalization is asked for and the phase prior is not Uniform on
\* (0, 2 pi); a call that raises constructs no likelihood and leaves
\* self.likelihood as it was.
C15_BuildLikelihoodChecks ==
    LET called == build_call.result # "none"
        tm == build_call.time_marginalization_kwargs
        time_bad == tm # None /\ (geocent_time_prior = None
                                    \/ Val(geocent_time_prior) = "NonUniform")
        phase_bad == build_call.phase_marginalization
                        /\ (phase_prior = None
                            \/ Val(phase_prior) # "Uniform_0_2pi")
    IN  /\ (called /\ time_bad) => build_call.result = "NotImplementedError"
        /\ (called /\ phase_bad) =>
                build_call.result \in {"NotImplementedError", "ValueError"}
        /\ (called /\ phase_bad /\ ~time_bad /\ tm = None)
                => build_call.result = "ValueError"
        /\ (called /\ build_call.result # "ok")
                => /\ build_call.constructed = 0
                   /\ likelihood = build_call.before

C15_Witness ==
    /\ build_call.result = "ValueError"
    /\ build_call.phase_marginalization
    /\ phase_prior # None /\ Val(phase_prior) = "Uniform_other"
    /\ build_call.before # None
    /\ Val(build_call.before).time_marginalization_kwargs # None
    /\ likelihood = build_call.before

\* what the claims observe of the waveform generator
\* the parameters for which wf_generator raises, and the exception it raises
GenerationFails(parameters) ==
    parameters \in {"domain_error", "other_error", "no_args_error"}
GenerationError(parameters) == WfGenerator(parameters, domain_len).error
AfterHplusHcross == wf_call.fn = "generate_hplus_hcross"
AfterCatchErrors == wf_call.fn = "generate_waveform_and_catch_errors"
ParallelDone == par_pc = "done"

C14_CatchErrorsFunction ==
    AfterCatchErrors =>
        IF ~GenerationFails(wf_call.parameters)
        THEN /\ wf_call.result = "ok"
             /\ wf_call.value = WfGenerator(wf_call.parameters, domain_len).value
        ELSE IF ~wf_call.catch_waveform_errors
        THEN /\ wf_call.result = "raise"
             /\ wf_call.error = GenerationError(wf_call.parameters)
        ELSE /\ wf_call.result = "ok"
             /\ \A pol \in {"h_plus", "h_cross"} :
                   Val(wf_call.value)[pol] = [i \in 1..domain_len |-> "nan"]

\* the row that the parameters of one row have to give
ExpectedRow(parameters, pol) ==
    LET x == IF parameters = "domain_error" THEN "nan" ELSE parameters
        n == IF wf_transform = None THEN domain_len ELSE domain_len - 1
    IN  [i \in 1..n |-> x]

\* C13: what generate_waveforms_parallel returns has, for each polarization,
\* one row per row of parameter_samples, the i-th row being the result of
\* the i-th row of the input (a NaN row for an input domain error); with a
\* pool of any size, and whatever the order in which the rows are taken and
\* completed, the call returns what it returns without a pool.
C13_ParallelRowOrder ==
    ParallelDone =>
        LET out == Val(polarizations)
            seq == Sequential(parameter_samples, domain_len, wf_transform)
        IN  /\ out.result = seq.result
            /\ out.result = "ok" =>
                  /\ out.value = seq.value
                  /\ DOMAIN Val(out.value) = {"h_plus", "h_cross"}
                  /\ \A pol \in {"h_plus", "h_cross"} :
                        /\ Len(Val(out.value)[pol]) = Len(parameter_samples)
                        /\ \A i \in 1..Len(parameter_samples) :
                              Val(out.value)[pol][i] =
                                 ExpectedRow(parameter_samples[i], pol)

C13_Witness ==
    /\ ParallelDone
    /\ pool = Some(MaxWorkers)
    /\ parameter_samples = <<"domain_error", "ok_a">>
    /\ completed = <<2, 1>>
    /\ domain_len = MaxDomain /\ wf_transform = None
    /\ Val(polarizations).result = "ok"
    /\ Val(Val(polarizations).value)["h_plus"]
          = <<[i \in 1..MaxDomain |-> "nan"], [i \in 1..MaxDomain |-> "ok_a"]>>

\* a _build_likelihood call that has constructed the likelihood
Built == build_call.result = "ok" /\ likelihood # None
\* the event metadata has the key time_event
HasTimeEventKey ==
    event_metadata # None /\ "time_event" \in Val(event_metadata).keys

\* C21: the likelihood is constructed with the time_event of the event
\* metadata as its reference time when the metadata has one, and with the
\* t_ref of the model otherwise; the t_ref of the sampler stays as it was.
C21_EventFrameLikelihood ==
    /\ t_ref = RefTime
    /\ Built =>
          IF HasTimeEventKey
          THEN Val(likelihood).t_ref = Val(event_metadata).time_event
          ELSE Val(likelihood).t_ref = Some(t_ref)

C21_Witness ==
    /\ Built
    /\ HasTimeEventKey
    /\ Val(event_metadata).time_event = Some(RefTime + 1)
    /\ Val(likelihood).t_ref = Some(RefTime + 1)
    /\ t_ref = RefTime

\* C25: whenever the reference-time correction takes the event time as
\* absent (no event metadata, no key time_event, or time_event None), the
\* likelihood is constructed with the t_ref of the model as reference time.
C25_EventTimePresentConsistent ==
    (Built /\ EventTime = None) => Val(likelihood).t_ref = Some(t_ref)

\* C26: with catch_waveform_errors True, whatever exception the generator
\* raises, generate_hplus_hcross (of a generator without transform) returns
\* NaN polarizations or raises that same exception.
C26_HandlerRaisesNoNewError ==
    (AfterHplusHcross /\ wf_transform = None /\ wf_call.catch_waveform_errors
        /\ GenerationFails(wf_call.parameters))
        => \/ /\ wf_call.result = "ok"
              /\ Val(wf_call.value) = PolDict("nan", domain_len)
           \/ /\ wf_call.result = "raise"
              /\ wf_call.error = GenerationError(wf_call.parameters)

\* the sum of the arrays array_key of the items of d whose mode has |m| = am
RECURSIVE SumOfModes(_, _, _)
SumOfModes(d, am, array_key) ==
    IF d = <<>> THEN 0
    ELSE (IF Abs(Head(d).mode[2]) = am THEN Head(d).arrays[array_key] ELSE 0)
         + SumOfModes(Tail(d), am, array_key)

\* C27: a call of sum_over_l leaves every array of its input as it was, each
\* entry (-1, |m|) of its output is the sum of the input arrays of the modes
\* with that |m|, and a second call on the same input gives the same output.
C27_SumOverLKeepsInput ==
    /\ \A c \in 1..Len(sum_calls) :
          LET before == sum_calls[c].before
              out == sum_calls[c].summed_dict
              after == IF c < Len(sum_calls) THEN sum_calls[c + 1].before
                       ELSE fd_modearray_dict
          IN  /\ after = before
              /\ DOMAIN out = {<<-1, Abs(before[i].mode[2])>> : i \in 1..Len(before)}
              /\ \A k \in DOMAIN out : \A array_key \in DOMAIN out[k] :
                    out[k][array_key] = SumOfModes(before, k[2], array_key)
    /\ Len(sum_calls) >= 2 => sum_calls[2].summed_dict = sum_calls[1].summed_dict

\* what the claims observe of a truncate_dataset_domain call
AfterTruncate == truncate_call.result # "none"
TruncateBefore == Val(truncate_call.before)

\* C22: of the truncate_dataset_domain calls made on a dataset at most one
\* succeeds; after it is_truncated stays True and every call raises
\* ValueError and leaves the domain and the compression matrix as they were.
C22_TruncateAtMostOnce ==
    /\ truncate_call.n_ok <= 1
    /\ truncate_call.n_ok = 1 => is_truncated
    /\ (AfterTruncate /\ TruncateBefore.is_truncated)
          => /\ truncate_call.result = "ValueError"
             /\ is_truncated
             /\ Val(dataset_domain) = TruncateBefore.dataset_domain
             /\ Vh = TruncateBefore.Vh

C22_Witness ==
    /\ AfterTruncate /\ TruncateBefore.is_truncated
    /\ truncate_call.new_range # None
    /\ Val(truncate_call.new_range) # <<Val(dataset_domain).f_min,
                                        Val(dataset_domain).f_max>>
    /\ truncate_call.result = "ValueError"
    /\ truncate_call.n_ok = 1
    /\ Val(Vh)[2] < MaxFreq + 1

\* C28: a truncate_dataset_domain call that raises leaves the range of the
\* domain, the compression matrix and is_truncated as they were before the
\* call, also when a new_range was passed.
C28_FailedTruncationChangesNothing ==
    (AfterTruncate /\ truncate_call.result # "ok")
        => /\ Val(dataset_domain) = TruncateBefore.dataset_domain
           /\ Vh = TruncateBefore.Vh
           /\ is_truncated = TruncateBefore.is_truncated

\* what the claims observe of a write_history call
AfterWriteHistory == history_call.result # "none"
HistoryBefore == Val(history_call.before)
\* the epochs of a sequence of rows
EpochsOf(rows) == [i \in 1..Len(rows) |-> rows[i].epoch]
\* C23: write_history opens the file in truncating mode only for epoch 1 with no
\* file present, and the file then holds the one new row; for epoch 1 with a
\* file present it aborts with an assertion and leaves the file as it was;
\* every other epoch appends exactly one row, with the given epoch, to what the
\* file held; and when the calls that returned are those of the epochs 1..k in
\* order (the first of them can only have returned on a directory without
\* history file) the file holds exactly their k rows in that order.
C23_HistoryAppendOnly ==
    /\ AfterWriteHistory =>
        LET epoch == Val(history_call.epoch) IN
        /\ history_call.mode = "w" =>
              /\ epoch = 1 /\ ~IsFile(HistoryBefore)
              /\ Len(Contents(history_file)) = 1
        /\ (epoch = 1 /\ IsFile(HistoryBefore)) =>
              /\ history_call.result = "AssertionError"
              /\ history_file = HistoryBefore
        /\ (epoch = 1 /\ ~IsFile(HistoryBefore)) => history_call.mode = "w"
        /\ epoch # 1 =>
              /\ history_call.result = "ok" /\ history_call.mode = "a"
              /\ IsFile(history_file)
              /\ Len(Contents(history_file)) = Len(Contents(HistoryBefore)) + 1
              /\ SubSeq(Contents(history_file), 1, Len(Contents(HistoryBefore)))
                    = Contents(HistoryBefore)
              /\ Contents(history_file)[Len(Contents(history_file))].epoch = epoch
    /\ (epochs_written # <<>> /\ EpochsOf(epochs_written) = [i \in 1..Len(epochs_written) |-> i])
          => history_file = Some(epochs_written)
\* epochs 1..MaxEpoch were written to a fresh directory
C23_Witness ==
    /\ AfterWriteHistory
    /\ Len(epochs_written) = MaxEpoch
    /\ EpochsOf(epochs_written) = [i \in 1..MaxEpoch |-> i]
    /\ history_call.mode = "a"

\* what the claims observe of a limits_exceeded call
AfterLimitsExceeded == limits_call.fn = "limits_exceeded"
\* a limit of the object is configured and reached in the observed call
TimeReached ==
    /\ Val(limits).max_time_per_run # None
    /\ limits_call.elapsed >= Val(Val(limits).max_time_per_run)
EpochsPerRunReached ==
    /\ Val(limits).max_epochs_per_run # None /\ limits_call.epoch # None
    /\ Val(limits_call.epoch) - Val(Val(limits).epoch_start)
          >= Val(Val(limits).max_epochs_per_run)
EpochsTotalReached ==
    /\ Val(limits).max_epochs_total # None /\ limits_call.epoch # None
    /\ Val(limits_call.epoch) >= Val(Val(limits).max_epochs_total)
EpochLimitConfigured ==
    \/ Val(limits).max_epochs_per_run # None
    \/ Val(limits).max_epochs_total # None
\* C24: a limits_exceeded call with an epoch number returns, and a call that
\* returns gives True exactly when a configured limit is reached (elapsed time
\* >= max_time_per_run, epoch - epoch_start >= max_epochs_per_run, or epoch >=
\* max_epochs_total; a limit that is None is never reached); with no limit
\* configured the call returns False for every epoch; and the constructor
\* raises ValueError exactly when max_epochs_per_run is given without
\* epoch_start, leaving no object behind.
C24_LimitsExceededIffReached ==
    /\ AfterLimitsExceeded =>
        /\ limits_call.epoch # None => limits_call.result \in {"True", "False"}
        /\ limits_call.result \in {"True", "False"} =>
              (limits_call.result = "True"
                  <=> (TimeReached \/ EpochsPerRunReached \/ EpochsTotalReached))
        /\ (Val(limits).max_time_per_run = None /\ ~EpochLimitConfigured)
              => limits_call.result = "False"
        /\ Val(limits).max_epochs_per_run # None => Val(limits).epoch_start # None
    /\ limits_call.fn = "__init__" =>
        /\ limits_call.result = "ValueError"
              <=> (/\ Val(limits_call.args).max_epochs_per_run # None
                   /\ Val(limits_call.args).epoch_start = None)
        /\ limits_call.result = "ValueError" => limits = None
        /\ limits_call.result = "ok" => limits = limits_call.args
\* the epoch limit of the run alone is reached, exactly at the limit
C24_Witness ==
    /\ AfterLimitsExceeded
    /\ limits_call.result = "True"
    /\ ~TimeReached /\ ~EpochsTotalReached
    /\ Val(limits_call.epoch) - Val(Val(limits).epoch_start)
          = Val(Val(limits).max_epochs_per_run)
    /\ Val(Val(limits).max_epochs_per_run) > 0
    /\ Val(limits).max_time_per_run # None /\ Val(limits).max_epochs_total # None
\* C29: a limits_exceeded call without epoch, on an object with an epoch limit
\* configured and with the time limit not reached, raises
\* ValueError('epoch required').
C29_EpochRequired ==
    (/\ AfterLimitsExceeded
     /\ limits_call.epoch = None
     /\ EpochLimitConfigured
     /\ ~TimeReached)
        => limits_call.result = "ValueError"

====
